---- MODULE Spec2Model ----
(***************************************************************************)
(* Model of cloud_colocations: the product catalog (DataProduct and its    *)
(* archive adapters), the file cache (FileCache, download_file) and the    *)
(* nearest-pixel search of a geolocation file (ModisMyd03.get_colocation). *)
(*                                                                         *)
(* Time is counted in ticks; a calendar day has DayLen ticks and the       *)
(* archive holds the folders of the calendar days in Days.  A filename is  *)
(* a sequence of tokens: its time stamp followed by its suffixes.          *)
(***************************************************************************)
EXTENDS Integers, Sequences, FiniteSets, TLC

VARIABLES
    remote,    \* the archive: day -> the folder's listing, in the store's order
    cache,     \* IcareProduct.cache: day -> listing as first fetched
    call,      \* the catalog call just made: operation, arguments, outcome
    fetched,   \* per adapter and day: the listings the store has served
    file_cache,\* the module's FileCache: its folder and whether it is temporary
    disk,      \* the local files and folders: path -> "complete", "partial", "dir"
    dl,        \* the download_file call just made
    dl_prev,   \* the download_file call before it
    lats,      \* ModisMyd03.lats: the latitude of every pixel
    lons,      \* ModisMyd03.lons: the longitude of every pixel
    i_cached,  \* ModisMyd03.i_cached: the row of the last match kept
    j_cached,  \* ModisMyd03.j_cached: its column
    query      \* the get_colocation call just made

catalogVars == <<remote, cache, call, fetched>>
cacheVars == <<file_cache, disk, dl, dl_prev>>
colocVars == <<lats, lons, i_cached, j_cached, query>>

(***************************************************************************)
(* Bounds                                                                  *)
(***************************************************************************)
DayLen == 3
MaxFiles == 3
MaxFetches == 2
GridRows == 4
GridCols == 3
\* ModisMyd03.cache_range, the half width of the window (10 in the source)
CacheRange == 1

\* The archive spans three calendar days: a previous, a current and a next one.
Days == 0 .. 2
Times == 0 .. (Cardinality(Days) * DayLen - 1)

(***************************************************************************)
(* Sequences and Python list idioms                                        *)
(***************************************************************************)
Range(s) == {s[i] : i \in DOMAIN s}

Min(S) == CHOOSE x \in S : \A y \in S : x <= y
Max(S) == CHOOSE x \in S : \A y \in S : x >= y
Abs(x) == IF x < 0 THEN -x ELSE x

\* s[-1:]: the last element as a list, the empty list for an empty list
LastSlice(s) == IF s = <<>> THEN <<>> ELSE <<s[Len(s)]>>

\* s.index(x): the first position of x (1-based); 0 stands for ValueError
IndexOf(s, x) ==
    IF \E i \in DOMAIN s : s[i] = x
    THEN Min({i \in DOMAIN s : s[i] = x})
    ELSE 0

\* the elements of the set S of integers as an ascending sequence
RECURSIVE SetToSortedSeq(_)
SetToSortedSeq(S) ==
    IF S = {} THEN <<>>
    ELSE LET m == Min(S) IN <<m>> \o SetToSortedSeq(S \ {m})

Reverse(s) == [i \in 1 .. Len(s) |-> s[Len(s) + 1 - i]]

(***************************************************************************)
(* Filenames and dates                                                     *)
(***************************************************************************)
\* the name the archive gives the file that starts at tick t
HdfName(t) == <<t, ".hdf">>

\* t.year, int(t.strftime("%j")): the calendar day of a time
DayOf(t) == t \div DayLen

\* modis_name_to_date and its siblings: the time stamp parsed from the name
name_to_date(f) == f[1]

\* the stamp of a name that does not hold a date: strptime raises on it
NoStamp == -1
parses(f) == f[1] # NoStamp
BadName == <<NoStamp, ".hdf">>

\* l[-3:] == "hdf"
EndsInHdf(f) == f[Len(f)] = ".hdf"

(***************************************************************************)
(* Outcomes of a call: a returned list of filenames or a raised error,     *)
(* with the days whose listing was requested, in order                     *)
(***************************************************************************)
Return(v, ds) == [ok |-> TRUE, val |-> v, err |-> "none", days |-> ds]
Raise(e, ds) == [ok |-> FALSE, val |-> <<>>, err |-> e, days |-> ds]

(***************************************************************************)
(* IcareProduct                                                            *)
(***************************************************************************)
\* a plausible slip: a folder that cannot be entered is tried a second time
ftp_listing_retried(c, r, d) ==
    IF d \in DOMAIN c THEN Return(c[d], <<d>>)
    ELSE IF d \in DOMAIN r THEN Return(r[d], <<d>>)
    ELSE Raise("Exception", <<d, d>>)

\* __ftp_listing_to_list__: the cached listing, else the store's; a folder
\* the store does not have raises
ftp_listing_to_list(c, r, d) ==
    IF d \in DOMAIN c THEN Return(c[d], <<d>>)
    ELSE IF d \in DOMAIN r THEN Return(r[d], <<d>>)
    ELSE Raise("Exception", <<d>>)

\* self.cache after the listings of the days ds were requested
CacheAfter(c, r, ds) ==
    [d \in DOMAIN c \cup (Range(ds) \cap DOMAIN r) |->
        IF d \in DOMAIN c THEN c[d] ELSE r[d]]

\* the days of the requests ds that a call asks the ftp store for and gets:
\* those not cached before
IcareFetched(c, r, ds) == (Range(ds) \cap DOMAIN r) \ DOMAIN c

\* the store's answers so far: for each day in D one more, and the listing
\* of the first
Tally(f, r, D) ==
    [d \in DOMAIN f \cup D |->
        IF d \notin D THEN f[d]
        ELSE IF d \in DOMAIN f THEN [f[d] EXCEPT !.n = @ + 1]
        ELSE [n |-> 1, first |-> IF d \in DOMAIN r THEN r[d] ELSE <<>>]]

\* no day was answered more than MaxFetches times
WithinQuota(f) ==
    \A a \in DOMAIN f : \A d \in DOMAIN f[a] : f[a][d].n <= MaxFetches

\* IcareProduct.get_files: the listing's entries that end in hdf, in the
\* listing's order
get_files(c, r, d) ==
    LET ls == ftp_listing_to_list(c, r, d) IN
    IF ~ls.ok THEN ls
    ELSE Return(SelectSeq(ls.val, EndsInHdf), <<d>>)

(***************************************************************************)
(* DataProduct.get_preceeding_file, get_following_file                     *)
(***************************************************************************)
\* a plausible slip: at a day's first file, the previous day's first file
preceeding_first_of_day(c, r, filename) ==
    LET t == name_to_date(filename)
        d == DayOf(t)
        files == get_files(c, r, d)
    IN  IF ~files.ok THEN files
        ELSE LET i == IndexOf(files.val, filename) IN
             IF i = 0 THEN Raise("ValueError", <<d>>)
             ELSE IF i = 1
             THEN LET dp == DayOf(t - DayLen)
                      prev == get_files(c, r, dp)
                  IN  IF ~prev.ok THEN Raise(prev.err, <<d, dp>>)
                      ELSE IF prev.val = <<>> THEN Raise("IndexError", <<d, dp>>)
                      ELSE Return(<<prev.val[1]>>, <<d, dp>>)
             ELSE Return(<<files.val[i - 1]>>, <<d>>)

\* a plausible slip: past an empty previous day, the day before it is tried
preceeding_further_back(c, r, filename) ==
    LET t == name_to_date(filename)
        d == DayOf(t)
        files == get_files(c, r, d)
    IN  IF ~parses(filename) THEN Raise("ValueError: time data", <<>>)
        ELSE IF ~files.ok THEN files
        ELSE LET i == IndexOf(files.val, filename) IN
             IF i = 0 THEN Raise("ValueError", <<d>>)
             ELSE IF i = 1
             THEN LET dp == DayOf(t - DayLen)
                      prev == get_files(c, r, dp)
                      dpp == DayOf(t - 2 * DayLen)
                      further == get_files(c, r, dpp)
                  IN  IF ~prev.ok THEN Raise(prev.err, <<d, dp>>)
                      ELSE IF prev.val # <<>>
                      THEN Return(<<prev.val[Len(prev.val)]>>, <<d, dp>>)
                      ELSE IF ~further.ok THEN Raise(further.err, <<d, dp, dpp>>)
                      ELSE IF further.val = <<>> THEN Raise("IndexError", <<d, dp, dpp>>)
                      ELSE Return(<<further.val[Len(further.val)]>>, <<d, dp, dpp>>)
             ELSE Return(<<files.val[i - 1]>>, <<d>>)

get_preceeding_file(c, r, filename) ==
    LET t == name_to_date(filename)
        d == DayOf(t)
        files == get_files(c, r, d)
    IN  IF ~parses(filename) THEN Raise("ValueError: time data", <<>>)
        ELSE IF ~files.ok THEN files
        ELSE LET i == IndexOf(files.val, filename) IN
             IF i = 0 THEN Raise("ValueError", <<d>>)
             ELSE IF i = 1
             THEN LET dp == DayOf(t - DayLen)
                      prev == get_files(c, r, dp)
                  IN  IF ~prev.ok THEN Raise(prev.err, <<d, dp>>)
                      ELSE IF prev.val = <<>> THEN Raise("IndexError", <<d, dp>>)
                      ELSE Return(<<prev.val[Len(prev.val)]>>, <<d, dp>>)
             ELSE Return(<<files.val[i - 1]>>, <<d>>)

get_following_file(c, r, filename) ==
    LET t == name_to_date(filename)
        d == DayOf(t)
        files == get_files(c, r, d)
    IN  IF ~parses(filename) THEN Raise("ValueError: time data", <<>>)
        ELSE IF ~files.ok THEN files
        ELSE LET i == IndexOf(files.val, filename) IN
             IF i = 0 THEN Raise("ValueError", <<d>>)
             ELSE IF i = Len(files.val)
             THEN LET dn == DayOf(t + DayLen)
                      next == get_files(c, r, dn)
                  IN  IF ~next.ok THEN Raise(next.err, <<d, dn>>)
                      ELSE IF next.val = <<>> THEN Raise("IndexError", <<d, dn>>)
                      ELSE Return(<<next.val[1]>>, <<d, dn>>)
             ELSE Return(<<files.val[i + 1]>>, <<d>>)

(***************************************************************************)
(* DataProduct.get_file_by_date                                            *)
(***************************************************************************)
\* np.argsort: the positions of a in ascending order of value (ties by position)
argsort(a) ==
    LET n == Len(a)
        rank(i) == Cardinality({k \in 1 .. n :
                        a[k] < a[i] \/ (a[k] = a[i] /\ k < i)})
    IN  [p \in 1 .. n |-> CHOOSE i \in 1 .. n : rank(i) = p - 1]

\* a plausible slip: a file that starts exactly at t counts as before t
latest_before_or_at(dts) ==
    LET inds == argsort(dts)
        indices == {k \in DOMAIN dts : dts[inds[k]] <= 0}
    IN  IF indices = {} THEN Len(dts) ELSE inds[Max(indices)]

\* inds, indices, ind: the position of the largest negative time difference,
\* the last position when there is none (0, Python's -1, for an empty list)
latest_before(dts) ==
    LET inds == argsort(dts)
        indices == {k \in DOMAIN dts : dts[inds[k]] < 0}
    IN  IF indices = {} THEN Len(dts) ELSE inds[Max(indices)]

get_file_by_date(c, r, t) ==
    LET dp == DayOf(t - DayLen)
        d == DayOf(t)
        prev == get_files(c, r, dp)
    IN  IF ~prev.ok THEN prev
        ELSE LET today == get_files(c, r, d) IN
        IF ~today.ok THEN Raise(today.err, <<dp, d>>)
        ELSE LET files == LastSlice(prev.val) \o today.val
                 dts == [k \in DOMAIN files |-> name_to_date(files[k]) - t]
                 ind == latest_before(dts)
             IN  IF \E k \in DOMAIN files : ~parses(files[k])
                 THEN Raise("ValueError: time data", <<dp, d>>)
                 ELSE IF files = <<>> THEN Raise("IndexError", <<dp, d>>)
                 ELSE Return(<<files[ind]>>, <<dp, d>>)

(***************************************************************************)
(* DataProduct.get_files_in_range                                          *)
(***************************************************************************)
\* np.argmin: the first position of the smallest value
argmin(a) == Min({i \in DOMAIN a : \A k \in DOMAIN a : a[i] <= a[k]})

\* The while loop: t runs from t0 in steps of one day while t < t1.  st holds
\* the locals: files, pos1 (bound says whether it was ever assigned), t, and
\* the days whose listing was requested.
RECURSIVE scan_days(_, _, _, _, _)
scan_days(c, r, t0, t1, st) ==
    IF t1 - st.t > 0
    THEN LET d == DayOf(st.t)
             fs == get_files(c, r, d)
         IN  IF ~fs.ok
             THEN [st EXCEPT !.ok = FALSE, !.err = fs.err, !.days = @ \o <<d>>]
             ELSE IF \E i \in DOMAIN fs.val : ~parses(fs.val[i])
             THEN [st EXCEPT !.ok = FALSE, !.err = "ValueError: time data",
                             !.days = @ \o <<d>>]
             ELSE LET pos0 == [i \in DOMAIN fs.val |-> name_to_date(fs.val[i]) - t0 >= 0]
                      pos1 == [i \in DOMAIN fs.val |-> name_to_date(fs.val[i]) - t1 > 0]
                      inds == {i \in DOMAIN fs.val : pos0[i] /\ ~pos1[i]}
                      sel == [k \in 1 .. Cardinality(inds) |->
                                 fs.val[SetToSortedSeq(inds)[k]]]
                  IN  scan_days(c, r, t0, t1,
                          [st EXCEPT !.files = @ \o sel, !.pos1 = pos1,
                                     !.bound = TRUE, !.t = @ + DayLen,
                                     !.days = @ \o <<d>>])
    ELSE st

\* a plausible slip: no fallback, the scan's selection is kept as it is
nearest_fallback_skipped(c, r, t0, st) == st

\* "Make sure that we have at least one file even if none start within given
\* range": the listing of t0's day and of the day after the loop's final t
nearest_fallback(c, r, t0, st) ==
    IF ~st.ok \/ ~(Len(st.files) < 1) THEN st
    ELSE LET d0 == DayOf(t0)
             t == st.t + DayLen
             d1 == DayOf(t)
             fs0 == get_files(c, r, d0)
         IN  IF ~fs0.ok
             THEN [st EXCEPT !.ok = FALSE, !.err = fs0.err, !.days = @ \o <<d0>>]
             ELSE LET fs1 == get_files(c, r, d1) IN
             IF ~fs1.ok
             THEN [st EXCEPT !.ok = FALSE, !.err = fs1.err, !.days = @ \o <<d0, d1>>]
             ELSE LET fs == fs0.val \o fs1.val
                      dts == [i \in DOMAIN fs |-> Abs(name_to_date(fs[i]) - t0)]
                  IN  IF \E i \in DOMAIN fs : ~parses(fs[i])
                      THEN [st EXCEPT !.ok = FALSE, !.err = "ValueError: time data",
                                      !.days = @ \o <<d0, d1>>]
                      ELSE IF fs = <<>>
                      THEN [st EXCEPT !.ok = FALSE, !.err = "ValueError",
                                      !.days = @ \o <<d0, d1>>]
                      ELSE [st EXCEPT !.files = <<fs[argmin(dts)]>>, !.t = t,
                                      !.days = @ \o <<d0, d1>>]

\* a plausible slip: the preceding file is put after the selection
preceeding_appended(c, r, t0_inclusive, st) ==
    IF ~st.ok \/ ~(t0_inclusive /\ st.files # <<>>) THEN st
    ELSE LET f_p == get_preceeding_file(c, r, st.files[1]) IN
         IF ~f_p.ok
         THEN [st EXCEPT !.ok = FALSE, !.err = f_p.err, !.days = @ \o f_p.days]
         ELSE [st EXCEPT !.files = @ \o f_p.val, !.days = @ \o f_p.days]

\* if t0_inclusive and not files == []
prepend_preceeding(c, r, t0_inclusive, st) ==
    IF ~st.ok \/ ~(t0_inclusive /\ st.files # <<>>) THEN st
    ELSE LET f_p == get_preceeding_file(c, r, st.files[1]) IN
         IF ~f_p.ok
         THEN [st EXCEPT !.ok = FALSE, !.err = f_p.err, !.days = @ \o f_p.days]
         ELSE [st EXCEPT !.files = f_p.val \o @, !.days = @ \o f_p.days]

\* files += [self.get_following_file(files[-1])]
append_following(c, r, st) ==
    LET f_n == get_following_file(c, r, st.files[Len(st.files)]) IN
    IF ~f_n.ok
    THEN [st EXCEPT !.ok = FALSE, !.err = f_n.err, !.days = @ \o f_n.days]
    ELSE [st EXCEPT !.files = @ \o f_n.val, !.days = @ \o f_n.days]

\* if not files == [] and not pos1[-1]: pos1 is the last scanned day's, and
\* is unbound when the loop never ran
bracket_end(c, r, st) ==
    IF ~st.ok \/ st.files = <<>> THEN st
    ELSE IF ~st.bound THEN [st EXCEPT !.ok = FALSE, !.err = "UnboundLocalError"]
    ELSE IF st.pos1 = <<>> THEN [st EXCEPT !.ok = FALSE, !.err = "IndexError"]
    ELSE IF ~st.pos1[Len(st.pos1)] THEN append_following(c, r, st)
    ELSE st

\* a plausible slip: with t1_inclusive the last file is put in a second time
inclusive_end_repeats_last(c, r, t1_inclusive, st) ==
    IF ~st.ok \/ ~(t1_inclusive /\ st.files # <<>>) THEN st
    ELSE [st EXCEPT !.files = @ \o <<st.files[Len(st.files)]>>]

\* if t1_inclusive and not files == []
append_inclusive_end(c, r, t1_inclusive, st) ==
    IF ~st.ok \/ ~(t1_inclusive /\ st.files # <<>>) THEN st
    ELSE append_following(c, r, st)

get_files_in_range(c, r, t0, t1, t0_inclusive, t1_inclusive) ==
    LET st0 == [ok |-> TRUE, err |-> "none", files |-> <<>>, pos1 |-> <<>>,
                bound |-> FALSE, t |-> t0, days |-> <<>>]
        st1 == scan_days(c, r, t0, t1, st0)
        st2 == nearest_fallback(c, r, t0, st1)
        st3 == prepend_preceeding(c, r, t0_inclusive, st2)
        st4 == bracket_end(c, r, st3)
        st5 == append_inclusive_end(c, r, t1_inclusive, st4)
    IN  IF st5.ok THEN Return(st5.files, st5.days) ELSE Raise(st5.err, st5.days)

\* The list objects a call extends in place.  A list is named by the day
\* whose entry of self.cache it is, NoDay for a list the cache does not hold.
NoDay == -1

\* a plausible slip: get_files hands out the cached list itself
get_files_hands_out_cached(d) == d

\* the list IcareProduct.get_files returns: the comprehension builds a new
\* list, shared with no entry of self.cache
shared_with(d) == NoDay

\* fs += more: list.__iadd__ extends the object, and with it the entry of the
\* cache that is this object
extend_in_place(c, day, more) ==
    IF day \in DOMAIN c THEN [c EXCEPT ![day] = @ \o more] ELSE c

\* what the fallback's fs += self.get_files(y1, d1) adds to fs, the list that
\* get_files(y0, d0) returned; nothing when the call does not get there
fallback_adds(c, r, t0, t1) ==
    LET st == scan_days(c, r, t0, t1,
                  [ok |-> TRUE, err |-> "none", files |-> <<>>, pos1 |-> <<>>,
                   bound |-> FALSE, t |-> t0, days |-> <<>>])
        fs0 == get_files(c, r, DayOf(t0))
        fs1 == get_files(c, r, DayOf(st.t + DayLen))
    IN  IF st.ok /\ Len(st.files) < 1 /\ fs0.ok /\ fs1.ok THEN fs1.val ELSE <<>>

\* self.cache after get_files_in_range: the listings the call fetched, and
\* the fallback's extension where the cache holds the extended list.  (The
\* other += of the catalog extend lists made in the call: files = [] here,
\* the slice get_files(...)[-1:] in get_file_by_date.)
cache_after_range(c, r, t0, t1, ds) ==
    extend_in_place(CacheAfter(c, r, ds), shared_with(DayOf(t0)),
                    fallback_adds(c, r, t0, t1))

(***************************************************************************)
(* GesdiscProduct.get_files                                                *)
(***************************************************************************)
Quoted(f) == <<"\"">> \o f \o <<"\"">>

\* The directory page of the https server for day d, as the quoted strings
\* in it: every data file and its .xml companion, each linked twice, in the
\* store's order.  A day the server does not have gives a page without links.
gesdisc_page(r, d) ==
    IF d \notin DOMAIN r THEN <<>>
    ELSE LET n == Len(r[d])
             entry(k) ==
                 LET t == name_to_date(r[d][(k + 3) \div 4]) IN
                 IF k % 2 = 1 THEN Quoted(<<t, "HDF5">>)
                 ELSE Quoted(<<t, "HDF5", ".xml">>)
         IN  [k \in 1 .. 4 * n |-> entry(k)]

\* re.compile('"[^"]*.HDF5"'): a quoted string that ends in HDF5
MatchesProg(q) == Len(q) >= 3 /\ q[Len(q) - 1] = "HDF5"

\* files.sort() on a set of quoted names that differ in their time stamps
RECURSIVE SortedNames(_)
SortedNames(S) ==
    IF S = {} THEN <<>>
    ELSE LET m == CHOOSE f \in S : \A g \in S : f[2] <= g[2]
         IN  <<m>> \o SortedNames(S \ {m})

gesdisc_get_files(r, d) ==
    LET found == SelectSeq(gesdisc_page(r, d), MatchesProg)
        files == SortedNames(Range(found))
    IN  Return([k \in DOMAIN files |-> SubSeq(files[k], 2, Len(files[k]) - 1)], <<d>>)

(***************************************************************************)
(* The archive and the catalog's callers                                   *)
(***************************************************************************)
\* the files of the set S of start times that fall on day d, in ascending order
DayFiles(S, d) ==
    LET ts == SetToSortedSeq({t \in S : DayOf(t) = d})
    IN  [i \in DOMAIN ts |-> HdfName(ts[i])]

\* A store lists a folder in an order of its own: here ascending or descending.
Archives ==
    UNION {
        {r \in [Days -> UNION {{DayFiles(S, d), Reverse(DayFiles(S, d))} : d \in Days}] :
            \A d \in Days : r[d] \in {DayFiles(S, d), Reverse(DayFiles(S, d))}}
        : S \in {T \in SUBSET Times : Cardinality(T) <= MaxFiles}}

\* Stores with a fault on one day: the folder is missing, or its listing
\* holds, first or last, a name that does not parse.
FaultyArchives ==
    UNION {
        LET good == [d \in Days |-> DayFiles(S, d)] IN
        {[d \in Days \ {e} |-> good[d]],
         [good EXCEPT ![e] = <<BadName>> \o @],
         [good EXCEPT ![e] = @ \o <<BadName>>]}
        : S \in {T \in SUBSET Times : Cardinality(T) <= MaxFiles - 1}, e \in Days}

NoCache == [d \in {} |-> <<>>]

NoFetches == [icare |-> NoCache, gesdisc |-> NoCache]

Idle ==
    [op |-> "idle", t0 |-> 0, t1 |-> 0, incl0 |-> FALSE, incl1 |-> FALSE,
     file |-> <<>>, out |-> Return(<<>>, <<>>)]

CatalogInit ==
    /\ remote \in Archives
    /\ cache = NoCache
    /\ call = Idle
    /\ fetched = NoFetches

\* the same, over a store with a fault
CatalogFaultyInit ==
    /\ remote \in FaultyArchives
    /\ cache = NoCache
    /\ call = Idle
    /\ fetched = NoFetches

\* A call of the catalog: the listing cache keeps what the call fetched.
FileBefore(t) ==
    /\ call.op = "idle"
    /\ call' = [Idle EXCEPT !.op = "get_file_by_date", !.t0 = t,
                            !.out = get_file_by_date(cache, remote, t)]
    /\ cache' = CacheAfter(cache, remote, call'.out.days)
    /\ fetched' = [fetched EXCEPT
                      !.icare = Tally(@, remote, IcareFetched(cache, remote, call'.out.days))]
    /\ WithinQuota(fetched')
    /\ UNCHANGED <<remote, cacheVars, colocVars>>

Preceding(f) ==
    /\ call.op = "idle"
    /\ call' = [Idle EXCEPT !.op = "get_preceeding_file", !.file = f,
                            !.out = get_preceeding_file(cache, remote, f)]
    /\ cache' = CacheAfter(cache, remote, call'.out.days)
    /\ fetched' = [fetched EXCEPT
                      !.icare = Tally(@, remote, IcareFetched(cache, remote, call'.out.days))]
    /\ WithinQuota(fetched')
    /\ UNCHANGED <<remote, cacheVars, colocVars>>

Following(f) ==
    /\ call.op = "idle"
    /\ call' = [Idle EXCEPT !.op = "get_following_file", !.file = f,
                            !.out = get_following_file(cache, remote, f)]
    /\ cache' = CacheAfter(cache, remote, call'.out.days)
    /\ fetched' = [fetched EXCEPT
                      !.icare = Tally(@, remote, IcareFetched(cache, remote, call'.out.days))]
    /\ WithinQuota(fetched')
    /\ UNCHANGED <<remote, cacheVars, colocVars>>

FilesCovering(t0, t1, i0, i1) ==
    /\ call.op = "idle"
    /\ call' = [Idle EXCEPT !.op = "get_files_in_range", !.t0 = t0, !.t1 = t1,
                            !.incl0 = i0, !.incl1 = i1,
                            !.out = get_files_in_range(cache, remote, t0, t1, i0, i1)]
    /\ cache' = cache_after_range(cache, remote, t0, t1, call'.out.days)
    /\ fetched' = [fetched EXCEPT
                      !.icare = Tally(@, remote, IcareFetched(cache, remote, call'.out.days))]
    /\ WithinQuota(fetched')
    /\ UNCHANGED <<remote, cacheVars, colocVars>>

ListDay(d) ==
    /\ call.op = "idle"
    /\ call' = [Idle EXCEPT !.op = "get_files", !.t0 = d,
                            !.out = get_files(cache, remote, d)]
    /\ cache' = CacheAfter(cache, remote, call'.out.days)
    /\ fetched' = [fetched EXCEPT
                      !.icare = Tally(@, remote, IcareFetched(cache, remote, call'.out.days))]
    /\ WithinQuota(fetched')
    /\ UNCHANGED <<remote, cacheVars, colocVars>>

\* a GesdiscProduct keeps no listing cache
GesdiscListDay(d) ==
    /\ call.op = "idle"
    /\ call' = [Idle EXCEPT !.op = "gesdisc_get_files", !.t0 = d,
                            !.out = gesdisc_get_files(remote, d)]
    /\ fetched' = [fetched EXCEPT !.gesdisc = Tally(@, remote, {d})]
    /\ WithinQuota(fetched')
    /\ UNCHANGED <<remote, cache, cacheVars, colocVars>>

\* Stores whose content changes: the folder of the middle day is missing,
\* empty, or lists one or two files.
FirstOfMiddleDay == DayLen
\* an empty range on the day before: the fallback lists that day and the
\* middle day
LastOfFirstDay == DayLen - 1
Stores ==
    {[d \in Days \ {1} |-> <<>>],
     [d \in Days |-> DayFiles({}, d)],
     [d \in Days |-> DayFiles({FirstOfMiddleDay}, d)],
     [d \in Days |-> DayFiles({FirstOfMiddleDay, FirstOfMiddleDay + 1}, d)]}

ListingInit ==
    /\ remote \in Stores
    /\ cache = NoCache
    /\ call = Idle
    /\ fetched = NoFetches

\* the content of the store changes between two calls
StoreChanges ==
    /\ call.op = "idle"
    /\ remote' \in Stores \ {remote}
    /\ UNCHANGED <<cache, call, fetched, cacheVars, colocVars>>

\* the caller takes the result and goes on to its next call
NextCall ==
    /\ call.op # "idle"
    /\ call' = Idle
    /\ UNCHANGED <<remote, cache, fetched, cacheVars, colocVars>>

\* sequences of calls about the middle day, over a store that changes
ListingNext ==
    \/ \E d \in Days : ListDay(d)
    \/ GesdiscListDay(1)
    \/ \E t \in {FirstOfMiddleDay, FirstOfMiddleDay + 1} : FileBefore(t)
    \/ Preceding(HdfName(FirstOfMiddleDay + 1))
    \/ Following(HdfName(FirstOfMiddleDay))
    \/ \E i0, i1 \in BOOLEAN :
           FilesCovering(FirstOfMiddleDay, FirstOfMiddleDay + 1, i0, i1)
    \/ FilesCovering(LastOfFirstDay, LastOfFirstDay, FALSE, FALSE)
    \/ StoreChanges
    \/ NextCall

\* the names callers pass: of every start time, and one that does not parse
Names == {HdfName(t) : t \in Times} \cup {BadName}

CatalogNext ==
    \/ \E d \in Days : ListDay(d)
    \/ \E d \in Days : GesdiscListDay(d)
    \/ \E t \in Times : FileBefore(t)
    \/ \E f \in Names : Preceding(f)
    \/ \E f \in Names : Following(f)
    \/ \E t0 \in Times : \E t1 \in {t \in Times : t >= t0 - 1} : \E i0, i1 \in BOOLEAN :
           FilesCovering(t0, t1, i0, i1)

(***************************************************************************)
(* FileCache and DataProduct.download_file                                 *)
(***************************************************************************)
\* the suffixes download_file passes to ensure_extension
KnownSuffixes == <<".hdf", "HDF5">>

\* ensure_extension: path[-len(e):] == e for some e, else path + ext[0]
\* (a name's first token is its time stamp, the others are its suffixes)
ensure_extension(path, ext) ==
    IF Len(path) >= 2 /\ \E k \in DOMAIN ext : path[Len(path)] = ext[k]
    THEN path
    ELSE Append(path, ext[1])

\* os.path.join(folder, filename)
Join(folder, filename) == <<folder>> \o filename

NoPath == <<>>

\* FileCache.get: the path when it is a file, None otherwise
FileCache_get(fc, dsk, filename) ==
    IF Join(fc.path, filename) \in DOMAIN dsk
    THEN Join(fc.path, filename)
    ELSE NoPath

\* GesdiscProduct.download and IcareProduct.download.  The gesdisc request
\* may fail before dest is opened ("refused"), while chunks are written
\* ("broken") or not at all ("ok"); open(dest, 'wb') fails in a folder that
\* does not exist; icare's ftp.logins is no method of FTP and raises before
\* dest is opened.
download(adapter, how, dsk, dest) ==
    IF adapter = "icare" THEN [err |-> "AttributeError", disk |-> dsk]
    ELSE IF how = "refused" THEN [err |-> "TransportError", disk |-> dsk]
    ELSE IF <<dest[1]>> \notin DOMAIN dsk THEN [err |-> "FileNotFoundError", disk |-> dsk]
    ELSE IF how = "broken"
    THEN [err |-> "TransportError",
          disk |-> [q \in DOMAIN dsk \cup {dest} |-> IF q = dest THEN "partial" ELSE dsk[q]]]
    ELSE [err |-> "none",
          disk |-> [q \in DOMAIN dsk \cup {dest} |-> IF q = dest THEN "complete" ELSE dsk[q]]]

\* download_file: the outcome (returned path or error, whether the adapter's
\* download was invoked) and the disk after it
download_file(adapter, how, fc, dsk, filename) ==
    LET cache_hit == FileCache_get(fc, dsk, filename) IN
    IF cache_hit # NoPath
    THEN [file |-> filename, fetched |-> FALSE, err |-> "none",
          ret |-> cache_hit, disk |-> dsk]
    ELSE LET name == ensure_extension(filename, KnownSuffixes)
             dest == Join(fc.path, name)
             got == download(adapter, how, dsk, dest)
         IN  [file |-> filename, fetched |-> TRUE, err |-> got.err,
              ret |-> IF got.err = "none" THEN dest ELSE NoPath,
              disk |-> got.disk]

\* the filenames callers download: with a known suffix, with none, with another
CacheNames == {<<1, ".hdf">>, <<1, "HDF5">>, <<1>>, <<2>>, <<2, ".nc">>}

NoDisk == [q \in {} |-> "complete"]

\* the folder tempfile.mkdtemp() makes, and a folder of the caller's
TempDir == "tmp"
CallerDir == "data"

\* shutil.rmtree(dir): the folder and everything in it is gone
rmtree(dsk, dir) == [q \in {x \in DOMAIN dsk : x[1] # dir} |-> dsk[q]]

\* the disk with the fresh temporary folder on it
TempDisk == [q \in {<<TempDir>>} |-> "dir"]

\* the disk with, besides, the caller's folder and a file the caller keeps there
CallerDisk ==
    [q \in {<<TempDir>>, <<CallerDir>>, <<CallerDir, 0, ".hdf">>} |->
        IF Len(q) = 1 THEN "dir" ELSE "complete"]

NoDownload == [file |-> <<>>, fetched |-> FALSE, err |-> "none", ret |-> NoPath]

\* FileCache.__init__ without a path
FileCache_init == [path |-> TempDir, temp |-> TRUE, discarded |-> FALSE]

\* FileCache.set_path: the path is assigned first, so the tree removed for a
\* temporary cache is the new path's; rmtree raises when it does not exist
FileCache_set_path(fc, dsk, path) ==
    IF fc.temp /\ <<path>> \notin DOMAIN dsk
    THEN [fc |-> [fc EXCEPT !.path = path], disk |-> dsk, err |-> "FileNotFoundError"]
    ELSE [fc |-> [fc EXCEPT !.path = path, !.temp = FALSE],
          disk |-> IF fc.temp THEN rmtree(dsk, path) ELSE dsk, err |-> "none"]

\* FileCache.__del__: the tree at self.path is removed for a temporary cache
\* (an error raised in __del__ is ignored)
FileCache_del(fc, dsk) ==
    [fc |-> [fc EXCEPT !.discarded = TRUE],
     disk |-> IF fc.temp /\ <<fc.path>> \in DOMAIN dsk THEN rmtree(dsk, fc.path) ELSE dsk]

\* FileCache.__init__ with a path: the caller's folder, not temporary
FileCache_init_path(path) == [path |-> path, temp |-> FALSE, discarded |-> FALSE]

\* set_cache: the module's file_cache is bound to a new FileCache(path); the
\* object it was bound to loses its last reference and its __del__ runs
set_cache(fc, dsk, path) ==
    [fc |-> FileCache_init_path(path), disk |-> FileCache_del(fc, dsk).disk]

\* file_cache = FileCache(): a fresh temporary folder
CacheIdle ==
    /\ file_cache = FileCache_init
    /\ disk = TempDisk
    /\ dl = NoDownload
    /\ dl_prev = NoDownload

\* the same, on a disk where the caller's folder may exist
CacheInit ==
    /\ file_cache = FileCache_init
    /\ disk \in {TempDisk, CallerDisk}
    /\ dl = NoDownload
    /\ dl_prev = NoDownload

DownloadFile(adapter, how, filename) ==
    LET got == download_file(adapter, how, file_cache, disk, filename) IN
    /\ ~file_cache.discarded
    /\ dl' = [file |-> got.file, fetched |-> got.fetched, err |-> got.err, ret |-> got.ret]
    /\ dl_prev' = dl
    /\ disk' = got.disk
    /\ UNCHANGED <<file_cache, catalogVars, colocVars>>

\* FileCache.get, called on its own
Lookup(filename) ==
    /\ ~file_cache.discarded
    /\ dl' = [file |-> filename, fetched |-> FALSE, err |-> "none",
             ret |-> FileCache_get(file_cache, disk, filename)]
    /\ dl_prev' = NoDownload
    /\ UNCHANGED <<file_cache, disk, catalogVars, colocVars>>

SetPath(path) ==
    LET got == FileCache_set_path(file_cache, disk, path) IN
    /\ ~file_cache.discarded
    /\ file_cache' = got.fc
    /\ disk' = got.disk
    /\ dl' = NoDownload
    /\ dl_prev' = NoDownload
    /\ UNCHANGED <<catalogVars, colocVars>>

\* the cache object is discarded
Discard ==
    LET got == FileCache_del(file_cache, disk) IN
    /\ ~file_cache.discarded
    /\ file_cache' = got.fc
    /\ disk' = got.disk
    /\ dl' = NoDownload
    /\ dl_prev' = NoDownload
    /\ UNCHANGED <<catalogVars, colocVars>>

SetCache(path) ==
    LET got == set_cache(file_cache, disk, path) IN
    /\ ~file_cache.discarded
    /\ file_cache' = got.fc
    /\ disk' = got.disk
    /\ dl' = NoDownload
    /\ dl_prev' = NoDownload
    /\ UNCHANGED <<catalogVars, colocVars>>

CacheNext ==
    \/ \E f \in CacheNames : DownloadFile("icare", "ok", f)
    \/ \E f \in CacheNames : \E how \in {"ok", "refused", "broken"} :
           DownloadFile("gesdisc", how, f)
    \/ \E f \in CacheNames : Lookup(f)
    \/ SetPath(CallerDir)
    \/ SetCache(CallerDir)
    \/ Discard

CatalogIdle ==
    /\ remote = [d \in Days |-> <<>>]
    /\ cache = NoCache
    /\ call = Idle
    /\ fetched = NoFetches

(***************************************************************************)
(* ModisMyd03: the nearest pixel of a geolocation grid                     *)
(***************************************************************************)
\* A two-dimensional array: its shape and its elements, indexed from 0.
Array(m, n, f(_, _)) ==
    [m |-> m, n |-> n, at |-> [p \in (0 .. m - 1) \X (0 .. n - 1) |-> f(p[1], p[2])]]

\* a[i0 : i1, j0 : j1] for i0, j0 >= 0: the ends are clipped to the shape
Slice(a, i0, i1, j0, j1) ==
    LET lo_i == IF i0 < a.m THEN i0 ELSE a.m
        hi_i == IF i1 < a.m THEN i1 ELSE a.m
        lo_j == IF j0 < a.n THEN j0 ELSE a.n
        hi_j == IF j1 < a.n THEN j1 ELSE a.n
        m == IF hi_i > lo_i THEN hi_i - lo_i ELSE 0
        n == IF hi_j > lo_j THEN hi_j - lo_j ELSE 0
    IN  [m |-> m, n |-> n,
         at |-> [p \in (0 .. m - 1) \X (0 .. n - 1) |-> a.at[<<p[1] + lo_i, p[2] + lo_j>>]]]

\* geopy's distance(...).km, abstracted: 0 exactly between equal points
distance(lat0, lon0, lat1, lon1) == Abs(lat0 - lat1) + Abs(lon0 - lon1)

\* None for i_cached and j_cached
NoneIdx == -1

\* a plausible slip: the row taken from the raveled position with m, not n
colocation_row_by_m(lat, lon, la, lo) ==
    IF la.m = 0 \/ la.n = 0 THEN [err |-> "ValueError", i |-> 0, j |-> 0, d |-> 0]
    ELSE LET d == [p \in DOMAIN la.at |->
                      (la.at[p] - lat) * (la.at[p] - lat) + (lo.at[p] - lon) * (lo.at[p] - lon)]
             d_min == Min({d[p] : p \in DOMAIN d})
             ind == Min({p[1] * la.n + p[2] : p \in {p2 \in DOMAIN d : d[p2] = d_min}})
             i == IF ind \div la.m < la.m THEN ind \div la.m ELSE la.m - 1
             j == ind % la.n
         IN  [err |-> "none", i |-> i, j |-> j,
              d |-> distance(lat, lon, la.at[<<i, j>>], lo.at[<<i, j>>])]

\* _get_colocation: the first pixel, in row-major order, of smallest squared
\* difference in latitude and longitude, and its distance
colocation(lat, lon, la, lo) ==
    IF la.m = 0 \/ la.n = 0 THEN [err |-> "ValueError", i |-> 0, j |-> 0, d |-> 0]
    ELSE LET d == [p \in DOMAIN la.at |->
                      (la.at[p] - lat) * (la.at[p] - lat) + (lo.at[p] - lon) * (lo.at[p] - lon)]
             d_min == Min({d[p] : p \in DOMAIN d})
             ind == Min({p[1] * la.n + p[2] : p \in {p2 \in DOMAIN d : d[p2] = d_min}})
             i == ind \div la.n
             j == ind % la.n
         IN  [err |-> "none", i |-> i, j |-> j,
              d |-> distance(lat, lon, la.at[<<i, j>>], lo.at[<<i, j>>])]

\* self.i_cached and self.j_cached, as a condition
Truthy(x) == x # NoneIdx /\ x # 0

\* a plausible slip: a search that finds no pixel below the threshold raises
get_colocation_raising(la, lo, ic, jc, lat, lon, d_max, use_cache) ==
    LET f == colocation(lat, lon, la, lo) IN
    IF f.err = "none" /\ f.d < d_max
    THEN [err |-> "none", i |-> f.i, j |-> f.j, d |-> f.d, windowed |-> FALSE,
          by |-> "full", i_cached |-> f.i, j_cached |-> f.j]
    ELSE [err |-> "LookupError", i |-> 0, j |-> 0, d |-> 0, windowed |-> FALSE,
          by |-> "full", i_cached |-> ic, j_cached |-> jc]

\* a plausible slip: the full-grid result is kept as the cached pixel even
\* when it fails the threshold
get_colocation_always_cached(la, lo, ic, jc, lat, lon, d_max, use_cache) ==
    LET f == colocation(lat, lon, la, lo) IN
    [err |-> f.err, i |-> f.i, j |-> f.j, d |-> f.d, windowed |-> FALSE,
     by |-> "full",
     i_cached |-> IF f.err = "none" THEN f.i ELSE ic,
     j_cached |-> IF f.err = "none" THEN f.j ELSE jc]

\* get_colocation: the result, whether the window was searched, and the
\* cached pixel after the call
get_colocation(la, lo, ic, jc, lat, lon, d_max, use_cache) ==
    LET windowed == use_cache /\ Truthy(ic) /\ Truthy(jc)
        i_start == IF ic - CacheRange > 0 THEN ic - CacheRange ELSE 0
        i_end == ic + CacheRange
        j_start == IF jc - CacheRange > 0 THEN jc - CacheRange ELSE 0
        j_end == jc + CacheRange
        w == colocation(lat, lon, Slice(la, i_start, i_end, j_start, j_end),
                        Slice(lo, i_start, i_end, j_start, j_end))
        f == colocation(lat, lon, la, lo)
    IN  IF windowed /\ w.err # "none"
        THEN [err |-> w.err, i |-> 0, j |-> 0, d |-> 0, windowed |-> TRUE,
              by |-> "window", i_cached |-> ic, j_cached |-> jc]
        ELSE IF windowed /\ w.d < d_max
        THEN [err |-> "none", i |-> w.i, j |-> w.j, d |-> w.d, windowed |-> TRUE,
              by |-> "window", i_cached |-> ic, j_cached |-> jc]
        ELSE IF f.err # "none"
        THEN [err |-> f.err, i |-> 0, j |-> 0, d |-> 0, windowed |-> windowed,
              by |-> "full", i_cached |-> ic, j_cached |-> jc]
        ELSE [err |-> "none", i |-> f.i, j |-> f.j, d |-> f.d, windowed |-> windowed,
              by |-> "full",
              i_cached |-> IF f.d < d_max THEN f.i ELSE ic,
              j_cached |-> IF f.d < d_max THEN f.j ELSE jc]

\* The grids: latitude and longitude change by a fixed step along the rows
\* and along the columns, as along a swath (a step of 0 repeats a value).
Steps == 0 .. 1
Grids ==
    {[lats |-> Array(GridRows, GridCols, LAMBDA i, j : a * i + b * j),
      lons |-> Array(GridRows, GridCols, LAMBDA i, j : c * i + d * j)] :
        a \in Steps, b \in Steps, c \in Steps, d \in Steps}

Coords == 0 .. (GridRows + GridCols - 2)
Thresholds == 1 .. 2

NoQuery ==
    [op |-> "idle", lat |-> 0, lon |-> 0, d_max |-> 1, use_cache |-> FALSE,
     i_before |-> NoneIdx, j_before |-> NoneIdx,
     err |-> "none", i |-> 0, j |-> 0, d |-> 0, windowed |-> FALSE, by |-> "full"]

\* ModisMyd03.__init__
ColocInit ==
    /\ \E g \in Grids : lats = g.lats /\ lons = g.lons
    /\ i_cached = NoneIdx
    /\ j_cached = NoneIdx
    /\ query = NoQuery

Nearest(lat, lon, d_max, use_cache) ==
    LET got == get_colocation(lats, lons, i_cached, j_cached, lat, lon, d_max, use_cache) IN
    /\ query.op = "idle"
    /\ query' = [op |-> "get_colocation", lat |-> lat, lon |-> lon, d_max |-> d_max,
             use_cache |-> use_cache, i_before |-> i_cached, j_before |-> j_cached,
             err |-> got.err, i |-> got.i, j |-> got.j, d |-> got.d,
             windowed |-> got.windowed, by |-> got.by]
    /\ i_cached' = got.i_cached
    /\ j_cached' = got.j_cached
    /\ UNCHANGED <<lats, lons, catalogVars, cacheVars>>

\* the caller takes the result and goes on to its next query
NextQuery ==
    /\ query.op # "idle"
    /\ query' = NoQuery
    /\ UNCHANGED <<lats, lons, i_cached, j_cached, catalogVars, cacheVars>>

ColocNext ==
    \/ \E lat \in Coords, lon \in Coords, d_max \in Thresholds, use_cache \in BOOLEAN :
           Nearest(lat, lon, d_max, use_cache)
    \/ NextQuery

\* no geolocation file loaded
ColocIdle ==
    /\ lats = Array(0, 0, LAMBDA i, j : 0)
    /\ lons = Array(0, 0, LAMBDA i, j : 0)
    /\ i_cached = NoneIdx
    /\ j_cached = NoneIdx
    /\ query = NoQuery

(***************************************************************************)
(* Specifications: the callers of the catalog, of the file cache and of    *)
(* a geolocation file                                                      *)
(***************************************************************************)
vars == <<remote, cache, call, fetched, file_cache, disk, dl, dl_prev,
          lats, lons, i_cached, j_cached, query>>

Init == CatalogInit /\ CacheIdle /\ ColocIdle
Next == CatalogNext
Spec == Init /\ [][Next]_vars

InitCache == CatalogIdle /\ CacheInit /\ ColocIdle
NextCache == CacheNext
SpecCache == InitCache /\ [][NextCache]_vars

InitFaulty == CatalogFaultyInit /\ CacheIdle /\ ColocIdle
NextFaulty == CatalogNext
SpecFaulty == InitFaulty /\ [][NextFaulty]_vars

InitListing == ListingInit /\ CacheIdle /\ ColocIdle
NextListing == ListingNext
SpecListing == InitListing /\ [][NextListing]_vars

InitColoc == CatalogIdle /\ CacheIdle /\ ColocInit
NextColoc == ColocNext
SpecColoc == InitColoc /\ [][NextColoc]_vars

(***************************************************************************)
(* Properties of the catalog                                               *)
(***************************************************************************)
\* the store's listing of day d, the empty list for a folder it does not have
Listed(d) == IF d \in DOMAIN remote THEN SelectSeq(remote[d], EndsInHdf) ELSE <<>>

StartTimes(fs) == {name_to_date(fs[i]) : i \in DOMAIN fs}

\* every folder is listed in chronological order
Chronological ==
    \A d \in DOMAIN remote : \A i, j \in DOMAIN remote[d] :
        i < j => name_to_date(remote[d][i]) < name_to_date(remote[d][j])

StrictlyIncreasing(fs) ==
    \A i, j \in DOMAIN fs : i < j => name_to_date(fs[i]) < name_to_date(fs[j])

\* the candidates of file_before(t): the previous day's last listed file and
\* all files of t's day
Candidates(t) == LastSlice(Listed(DayOf(t - DayLen))) \o Listed(DayOf(t))

BothDaysListed(t) == DayOf(t - DayLen) \in DOMAIN remote /\ DayOf(t) \in DOMAIN remote

\* C1: when a candidate of file_before(t) starts strictly before t, the file
\* returned is the candidate with the latest start time strictly less than t
\* (never a file that starts exactly at t).
C1_FileBeforeIsLatestEarlier ==
    (/\ call.op = "get_file_by_date"
     /\ BothDaysListed(call.t0)
     /\ \E s \in StartTimes(Candidates(call.t0)) : s < call.t0)
    => /\ call.out.ok
       /\ call.out.val[1] \in Range(Candidates(call.t0))
       /\ name_to_date(call.out.val[1]) =
              Max({s \in StartTimes(Candidates(call.t0)) : s < call.t0})

\* file_before(t) answered with an earlier file although a candidate starts
\* exactly at t and two candidates start before it
C1_Witness ==
    /\ call.op = "get_file_by_date"
    /\ call.out.ok
    /\ call.t0 \in StartTimes(Candidates(call.t0))
    /\ Cardinality({s \in StartTimes(Candidates(call.t0)) : s < call.t0}) >= 2
    /\ name_to_date(call.out.val[1]) < call.t0

FlagFreeRange ==
    /\ call.op = "get_files_in_range"
    /\ call.t0 < call.t1
    /\ ~call.incl0
    /\ ~call.incl1

LastOf(fs) == fs[Len(fs)]

\* C2: for t0 < t1, files_covering(t0, t1, false, false) brackets t1 from
\* above: the last returned file starts at or after t1 (stated for archives
\* that list every day in chronological order).
C2_LastFileBracketsEnd ==
    (FlagFreeRange /\ Chronological /\ call.out.ok /\ call.out.val # <<>>)
    => name_to_date(LastOf(call.out.val)) >= call.t1

\* every day the call asked the listing of has a folder with a file in it
ExaminedDaysNonEmpty ==
    \A i \in DOMAIN call.out.days : Listed(call.out.days[i]) # <<>>

\* no listed file starts inside [t0, t1]
NoneInRange ==
    \A d \in Days : \A s \in StartTimes(Listed(d)) : s < call.t0 \/ s > call.t1

\* C3: for t0 < t1, when every examined day has a non-empty listing,
\* files_covering(t0, t1, false, false) returns at least one file: it ends
\* neither with an empty list nor with an error.
C3_RangeNeverEmpty ==
    (FlagFreeRange /\ ExaminedDaysNonEmpty)
    => (call.out.ok /\ call.out.val # <<>>)

\* a range no file starts in, answered by the nearest-file fallback
C3_Witness ==
    /\ FlagFreeRange
    /\ ExaminedDaysNonEmpty
    /\ NoneInRange
    /\ call.out.ok
    /\ call.out.val # <<>>

\* C4: for t0 < t1 and any inclusive flags, over an archive that lists every
\* day in chronological order, the start times of the returned sequence are
\* strictly increasing.
C4_RangeChronological ==
    (/\ call.op = "get_files_in_range"
     /\ call.t0 < call.t1
     /\ Chronological
     /\ call.out.ok)
    => StrictlyIncreasing(call.out.val)

\* both flags set, a result of at least three files over more than one day
C4_Witness ==
    /\ call.op = "get_files_in_range"
    /\ call.t0 < call.t1
    /\ call.incl0 /\ call.incl1
    /\ Chronological
    /\ call.out.ok
    /\ Len(call.out.val) >= 3
    /\ DayOf(name_to_date(call.out.val[1])) # DayOf(name_to_date(LastOf(call.out.val)))

\* C5: preceding and following are mutual inverses: when following(f)
\* returns g then preceding(g) returns f, and when preceding(f) returns g
\* then following(g) returns f.
C5_PrecedingFollowingInverse ==
    /\ (call.op = "get_following_file" /\ call.out.ok)
       => LET back == get_preceeding_file(cache, remote, call.out.val[1])
          IN  back.ok /\ back.val = <<call.file>>
    /\ (call.op = "get_preceeding_file" /\ call.out.ok)
       => LET forth == get_following_file(cache, remote, call.out.val[1])
          IN  forth.ok /\ forth.val = <<call.file>>

\* following(f) crossed into the next day, whose folder lists two files
C5_Witness ==
    /\ call.op = "get_following_file"
    /\ call.out.ok
    /\ DayOf(name_to_date(call.out.val[1])) = DayOf(name_to_date(call.file)) + 1
    /\ Len(Listed(DayOf(name_to_date(call.out.val[1])))) >= 2
    /\ Len(Listed(DayOf(name_to_date(call.file)))) >= 1

\* C9: when no candidate of file_before(t) starts strictly before t, the
\* call returns the candidate whose start time is closest to t.
C9_FallbackIsClosest ==
    (/\ call.op = "get_file_by_date"
     /\ Chronological
     /\ BothDaysListed(call.t0)
     /\ Candidates(call.t0) # <<>>
     /\ \A s \in StartTimes(Candidates(call.t0)) : s >= call.t0)
    => /\ call.out.ok
       /\ \A s \in StartTimes(Candidates(call.t0)) :
              Abs(name_to_date(call.out.val[1]) - call.t0) <= Abs(s - call.t0)

\* C10: get_files of every archive adapter returns the day's filenames
\* sorted ascending by filename, whatever order the store lists them in.
C10_ListingsSorted ==
    (call.op \in {"get_files", "gesdisc_get_files"} /\ call.out.ok)
    => StrictlyIncreasing(call.out.val)

(***************************************************************************)
(* Properties of the file cache                                            *)
(***************************************************************************)
\* C6: download_file invoked twice in a row for the same filename invokes
\* the adapter's download only once: after a first call that fetched the
\* file and returned, the second call does not fetch.
C6_SecondDownloadDoesNotFetch ==
    (/\ dl.file # <<>>
     /\ dl_prev.file = dl.file
     /\ dl_prev.fetched
     /\ dl_prev.err = "none")
    => ~dl.fetched

\* C11: a FileCache made without a path has a fresh temporary folder, and
\* after any sequence of lookups, downloads and set_path calls that folder
\* and everything in it is gone once the cache object is discarded.
C11_TempDirRemovedOnDiscard ==
    file_cache.discarded => \A q \in DOMAIN disk : q[1] # TempDir

(***************************************************************************)
(* Properties of the nearest-pixel search                                  *)
(***************************************************************************)
Pixels == DOMAIN lats.at

ExactPixels(lat, lon) == {p \in Pixels : lats.at[p] = lat /\ lons.at[p] = lon}

\* C7: when exactly one pixel (r, c) has the latitude and longitude of the
\* query, a search without the cache and with d_max > 0 returns row r,
\* column c and distance 0.
C7_ExactMatchFound ==
    (/\ query.op = "get_colocation"
     /\ ~query.use_cache
     /\ query.d_max > 0
     /\ Cardinality(ExactPixels(query.lat, query.lon)) = 1)
    => /\ query.err = "none"
       /\ <<query.i, query.j>> \in ExactPixels(query.lat, query.lon)
       /\ query.d = 0

\* the exact pixel is off the first row and the first column
C7_Witness ==
    /\ query.op = "get_colocation"
    /\ ~query.use_cache
    /\ Cardinality(ExactPixels(query.lat, query.lon)) = 1
    /\ query.i = GridRows - 1 /\ query.j > 0
    /\ query.d = 0

\* the rows and columns get_colocation cuts out around the cached pixel
InSearchedWindow(p, ic, jc) ==
    /\ ic - CacheRange <= p[1] /\ p[1] < ic + CacheRange
    /\ jc - CacheRange <= p[2] /\ p[2] < jc + CacheRange

\* C8: with a previous match kept and the query's nearest pixel inside the
\* window around it, a search with use_cache returns the row and column a
\* full-grid search returns.
C8_CacheDoesNotChangeResult ==
    LET full == colocation(query.lat, query.lon, lats, lons) IN
    (/\ query.op = "get_colocation"
     /\ query.use_cache
     /\ query.i_before # NoneIdx /\ query.j_before # NoneIdx
     /\ InSearchedWindow(<<full.i, full.j>>, query.i_before, query.j_before))
    => (query.err = "none" /\ <<query.i, query.j>> = <<full.i, full.j>>)

\* no pixel of the grid is closer to the query than its threshold
NoPixelWithin ==
    \A p \in Pixels :
        distance(query.lat, query.lon, lats.at[p], lons.at[p]) >= query.d_max

\* C12: a query with no pixel within d_max never raises, whatever the cached
\* pixel and with or without use_cache: it returns a row, a column and a
\* distance that is at least d_max.
C12_NoMatchIsReturned ==
    (query.op = "get_colocation" /\ NoPixelWithin)
    => /\ query.err = "none"
       /\ <<query.i, query.j>> \in Pixels
       /\ query.d >= query.d_max

\* a query without a match that searched the window first
C12_Witness ==
    /\ query.op = "get_colocation"
    /\ NoPixelWithin
    /\ query.use_cache
    /\ query.windowed
    /\ query.by = "full"
    /\ query.d >= query.d_max

(***************************************************************************)
(* Properties of the catalog: errors                                       *)
(***************************************************************************)
\* C13: files_covering called with t0 >= t1 signals a RangeError instead of
\* returning a list of files.
C13_ReversedRangeIsRangeError ==
    (call.op = "get_files_in_range" /\ call.t0 >= call.t1)
    => (~call.out.ok /\ call.out.err = "RangeError")

\* the operations of the catalog that read listings and start times
CatalogOps ==
    {"get_file_by_date", "get_preceeding_file", "get_following_file",
     "get_files_in_range"}

\* the listing of a folder the store does not have was requested
ListDayFailed == \E i \in DOMAIN call.out.days : call.out.days[i] \notin DOMAIN remote

\* the call is certain to read the start time of a name that does not parse:
\* its argument, a candidate of file_before, a file of the first scanned day
StartTimeFailed ==
    \/ call.op \in {"get_preceeding_file", "get_following_file"} /\ ~parses(call.file)
    \/ /\ call.op = "get_file_by_date"
       /\ BothDaysListed(call.t0)
       /\ BadName \in Range(Candidates(call.t0))
    \/ /\ call.op = "get_files_in_range"
       /\ call.t0 < call.t1
       /\ DayOf(call.t0) \in DOMAIN remote
       /\ BadName \in Range(Listed(DayOf(call.t0)))

\* the listings requested up to a failure of start_time
RequestsBeforeStartTime ==
    IF call.op = "get_file_by_date" THEN <<DayOf(call.t0 - DayLen), DayOf(call.t0)>>
    ELSE IF call.op = "get_files_in_range" THEN <<DayOf(call.t0)>>
    ELSE <<>>

\* C14: when list_day or start_time fails while file_before, preceding,
\* following or files_covering runs, the call ends with that error and no
\* result; the failed listing is requested once and nothing is requested
\* after the failure.
C14_AdapterFailureSurfaces ==
    /\ (call.op \in CatalogOps /\ ListDayFailed)
       => /\ ~call.out.ok
          /\ call.out.val = <<>>
          /\ call.out.err = "Exception"
          /\ \A i \in DOMAIN call.out.days :
                 call.out.days[i] \notin DOMAIN remote <=> i = Len(call.out.days)
    /\ (call.op \in CatalogOps /\ StartTimeFailed)
       => /\ ~call.out.ok
          /\ call.out.val = <<>>
          /\ call.out.err = "ValueError: time data"
          /\ call.out.days = RequestsBeforeStartTime

\* files_covering met a missing folder after it had listed a day with a file
C14_Witness ==
    /\ call.op = "get_files_in_range"
    /\ call.t0 < call.t1
    /\ ListDayFailed
    /\ ~call.out.ok
    /\ Len(call.out.days) >= 2
    /\ Listed(call.out.days[1]) # <<>>

(***************************************************************************)
(* Properties of files_covering: the day scan, the fallback, the flags     *)
(***************************************************************************)
\* the locals of get_files_in_range after its while loop, for the call made
Scanned ==
    scan_days(NoCache, remote, call.t0, call.t1,
              [ok |-> TRUE, err |-> "none", files |-> <<>>, pos1 |-> <<>>,
               bound |-> FALSE, t |-> call.t0, days |-> <<>>])

\* the listed files that start in [t0, t1]
InRange ==
    UNION {{f \in Range(Listed(d)) : call.t0 <= name_to_date(f) /\ name_to_date(f) <= call.t1}
           : d \in DOMAIN remote}

\* C15: the day scan of files_covering(t0, t1, ...) lists every day from
\* t0's day through t1's day, and selects exactly the listed files that
\* start in [t0, t1], a file starting exactly at t1 included.
C15_ScanSelectsRange ==
    (/\ call.op = "get_files_in_range"
     /\ call.t0 < call.t1
     /\ \A d \in DayOf(call.t0) .. DayOf(call.t1) : d \in DOMAIN remote)
    => /\ Scanned.ok
       /\ Range(Scanned.days) = DayOf(call.t0) .. DayOf(call.t1)
       /\ Range(Scanned.files) = InRange

\* the locals after the fallback that follows the scan
Fallen == nearest_fallback(NoCache, remote, call.t0, Scanned)

\* the files of t0's day and of the day of t0 + 1 day
FallbackCandidates == Listed(DayOf(call.t0)) \o Listed(DayOf(call.t0 + DayLen))

\* C16: when no file starts in [t0, t1], the fallback of files_covering
\* takes the listings of exactly two days, t0's day and the day of t0 + 1
\* day, whatever the length of the range, and selects the one file among
\* them whose start time is closest to t0.
C16_FallbackUsesNextDay ==
    (/\ call.op = "get_files_in_range"
     /\ call.t0 < call.t1
     /\ InRange = {}
     /\ Scanned.ok
     /\ DayOf(call.t0 + DayLen) \in DOMAIN remote
     /\ FallbackCandidates # <<>>)
    => /\ Fallen.ok
       /\ Fallen.days = Scanned.days \o <<DayOf(call.t0), DayOf(call.t0 + DayLen)>>
       /\ Len(Fallen.files) = 1
       /\ Fallen.files[1] \in Range(FallbackCandidates)
       /\ \A f \in Range(FallbackCandidates) :
              Abs(name_to_date(Fallen.files[1]) - call.t0) <= Abs(name_to_date(f) - call.t0)

\* the same range asked without the inclusive flags
FlagFree == get_files_in_range(cache, remote, call.t0, call.t1, FALSE, FALSE)

\* C17: the inclusive flags of files_covering only add files at the two
\* ends: the result is the flag-free result, with preceding(result[0]) put
\* first under inclusive_start and one more following(result[-1]) put last
\* under inclusive_end; the other elements and their order are the same.
C17_FlagsOnlyAddAtEnds ==
    (/\ call.op = "get_files_in_range"
     /\ call.t0 < call.t1
     /\ call.out.ok)
    => /\ FlagFree.ok
       /\ FlagFree.val # <<>>
       /\ LET first == get_preceeding_file(cache, remote, FlagFree.val[1])
              last == get_following_file(cache, remote, LastOf(FlagFree.val))
          IN  /\ call.incl0 => first.ok
              /\ call.incl1 => last.ok
              /\ call.out.val = (IF call.incl0 THEN first.val ELSE <<>>)
                                    \o FlagFree.val
                                    \o (IF call.incl1 THEN last.val ELSE <<>>)

\* both flags set: a file before and a file after the flag-free result
C17_Witness ==
    /\ call.op = "get_files_in_range"
    /\ call.t0 < call.t1
    /\ call.incl0 /\ call.incl1
    /\ call.out.ok
    /\ FlagFree.ok
    /\ Len(call.out.val) = Len(FlagFree.val) + 2
    /\ Cardinality(Range(call.out.val)) = Len(call.out.val)

(***************************************************************************)
(* Properties of preceding, following and file_before                      *)
(***************************************************************************)
\* the call is preceding(f) or following(f) for a file f its day lists
NeighbourOf(op) ==
    /\ call.op = op
    /\ parses(call.file)
    /\ call.file \in Range(Listed(DayOf(name_to_date(call.file))))

\* the answer of a neighbour call that stays in f's day (to = -1 or 1), or
\* goes to the one day next to it, where it takes the file at the near end
NeighbourAnswer(to) ==
    LET d == DayOf(name_to_date(call.file))
        files == Listed(d)
        i == IndexOf(files, call.file)
        edge == IF to < 0 THEN i = 1 ELSE i = Len(files)
        beside == Listed(d + to)
    IN  IF ~edge
        THEN /\ call.out.ok
             /\ call.out.val = <<files[i + to]>>
             /\ call.out.days = <<d>>
        ELSE /\ call.out.days = <<d, d + to>>
             /\ IF beside # <<>>
                THEN /\ call.out.ok
                     /\ call.out.val = <<beside[IF to < 0 THEN Len(beside) ELSE 1]>>
                ELSE ~call.out.ok

\* C18: preceding(f) returns the file just before f in the listing of f's
\* day; for the first file of a day it returns the last file of the one
\* previous day and consults no earlier day: it fails when that day's
\* listing is empty.  following(f) is the same towards the one next day.
C18_NeighbourWithinOneDay ==
    /\ NeighbourOf("get_preceeding_file") => NeighbourAnswer(-1)
    /\ NeighbourOf("get_following_file") => NeighbourAnswer(1)

\* preceding(f) failed at an empty previous day although the day before
\* that lists a file
C18_Witness ==
    /\ NeighbourOf("get_preceeding_file")
    /\ ~call.out.ok
    /\ Listed(DayOf(name_to_date(call.file)) - 1) = <<>>
    /\ Listed(DayOf(name_to_date(call.file)) - 2) # <<>>

\* C19: when no candidate of file_before(t) starts before t, the call
\* returns the latest candidate: the one with the greatest start time among
\* the previous day's last file and the files of t's day.
C19_FallbackIsLatest ==
    (/\ call.op = "get_file_by_date"
     /\ BothDaysListed(call.t0)
     /\ Candidates(call.t0) # <<>>
     /\ \A s \in StartTimes(Candidates(call.t0)) : s >= call.t0)
    => /\ call.out.ok
       /\ name_to_date(call.out.val[1]) = Max(StartTimes(Candidates(call.t0)))

(***************************************************************************)
(* Properties of the listing cache                                         *)
(***************************************************************************)
\* what get_files of adapter a returns for a folder listed as ls
ListingOf(a, ls) ==
    IF a = "icare" THEN SelectSeq(ls, EndsInHdf)
    ELSE gesdisc_get_files([d \in {0} |-> ls], 0).val

\* the adapter whose get_files the call was, if it was one
ListedBy ==
    IF call.op = "get_files" THEN "icare"
    ELSE IF call.op = "gesdisc_get_files" THEN "gesdisc"
    ELSE "none"

\* C20: the listing of a day is cached after its first fetch: for each
\* adapter and day the store is asked and answers at most once over any
\* sequence of calls, every later list_day of the day returns the listing
\* first fetched even if the store's content has changed, and a fetch that
\* fails caches nothing.
C20_ListingFetchedOnce ==
    /\ \A a \in DOMAIN fetched : \A d \in DOMAIN fetched[a] : fetched[a][d].n <= 1
    /\ (ListedBy # "none" /\ call.out.ok /\ call.t0 \in DOMAIN fetched[ListedBy])
       => call.out.val = ListingOf(ListedBy, fetched[ListedBy][call.t0].first)
    /\ DOMAIN cache \subseteq DOMAIN fetched.icare

(***************************************************************************)
(* Properties of the locality cache                                        *)
(***************************************************************************)
\* the first row and column of the window around the pixel cached before
WindowStart ==
    <<IF query.i_before - CacheRange > 0 THEN query.i_before - CacheRange ELSE 0,
      IF query.j_before - CacheRange > 0 THEN query.j_before - CacheRange ELSE 0>>

\* the pixel of the match in the grid: the windowed search counts rows and
\* columns from the window's start
MatchInGrid ==
    IF query.by = "window"
    THEN <<query.i + WindowStart[1], query.j + WindowStart[2]>>
    ELSE <<query.i, query.j>>

Matched == query.op = "get_colocation" /\ query.err = "none" /\ query.d < query.d_max

\* C21: after any successful match, found in the window or in the full
\* grid, the cached pixel is the pixel of that match (as returned, or as
\* counted in the grid).
C21_CacheFollowsMatch ==
    Matched => (\/ <<i_cached, j_cached>> = <<query.i, query.j>>
                \/ <<i_cached, j_cached>> = MatchInGrid)

\* C22: a query whose best candidate fails the threshold leaves the cached
\* row and column as they were; the cached pixel changes only in a query
\* that matched, and no query changes the grid.
C22_OnlyMatchesMoveCache ==
    [][/\ lats' = lats
       /\ lons' = lons
       /\ (query'.op = "get_colocation" /\ query'.d >= query'.d_max)
          => (i_cached' = i_cached /\ j_cached' = j_cached)
       /\ (i_cached' # i_cached \/ j_cached' # j_cached)
          => (/\ query'.op = "get_colocation"
              /\ query'.err = "none"
              /\ query'.d < query'.d_max)]_vars

\* a query that failed the threshold in the window and in the full grid,
\* with a pixel cached before it
C22_Witness ==
    /\ query.op = "get_colocation"
    /\ query.use_cache
    /\ query.windowed
    /\ query.d >= query.d_max
    /\ query.i_before # NoneIdx
    /\ <<i_cached, j_cached>> = <<query.i_before, query.j_before>>
    /\ <<query.i, query.j>> # <<i_cached, j_cached>>

\* the window the cached pixel is the centre of: CacheRange rows and columns
\* on each side, clipped to the grid
InCentredWindow(p, ic, jc) ==
    /\ p \in Pixels
    /\ ic - CacheRange <= p[1] /\ p[1] <= ic + CacheRange
    /\ jc - CacheRange <= p[2] /\ p[2] <= jc + CacheRange

\* C23: the windowed search covers exactly the rows max(i - w, 0) ..
\* min(i + w, rows - 1) and the columns max(j - w, 0) .. min(j + w, cols - 1)
\* around the cached pixel (i, j): a query whose one exact pixel lies in
\* that window is answered by the windowed search, and the windowed search
\* answers with no pixel outside it.
C23_WindowIsCentred ==
    (query.op = "get_colocation" /\ query.windowed)
    => /\ \A p \in ExactPixels(query.lat, query.lon) :
              (/\ Cardinality(ExactPixels(query.lat, query.lon)) = 1
               /\ InCentredWindow(p, query.i_before, query.j_before))
              => (query.by = "window" /\ MatchInGrid = p)
       /\ query.by = "window"
          => InCentredWindow(MatchInGrid, query.i_before, query.j_before)

\* C24: with use_cache and a pixel kept from a previous match, in any row
\* and column, row 0 and column 0 included, the windowed search is made
\* first, and the full grid is searched only when the window holds no pixel
\* within the threshold.
C24_WindowSearchedFirst ==
    (/\ query.op = "get_colocation"
     /\ query.use_cache
     /\ query.i_before # NoneIdx
     /\ query.j_before # NoneIdx)
    => /\ query.windowed
       /\ query.by = "full"
          => \A p \in ExactPixels(query.lat, query.lon) :
                 ~InSearchedWindow(p, query.i_before, query.j_before)


\* C25: a cache entry exists only once its content is fully downloaded: the
\* path a lookup or a download returns is that of a completely written
\* file, and after a download that fetched and failed the next download of
\* the same filename fetches again.
C25_EntriesAreComplete ==
    /\ dl.ret # NoPath => (dl.ret \in DOMAIN disk /\ disk[dl.ret] = "complete")
    /\ (/\ dl_prev.file # <<>>
        /\ dl_prev.file = dl.file
        /\ dl_prev.fetched
        /\ dl_prev.err # "none")
       => dl.fetched


\* C26: no operation of the file cache removes the caller's folder or
\* anything in it: whatever is on the disk under CallerDir before a step is
\* still there after it.
C26_CallerDirKept ==
    [][\A q \in DOMAIN disk : q[1] = CallerDir => q \in DOMAIN disk']_vars


\* C27: the catalog's queries leave the cached day listings as they were
\* fetched: after any sequence of file_before, preceding, following and
\* files_covering calls, the fallback's concatenation included, every cached
\* listing is the one first fetched for its day, and list_day of a day
\* returns what that first listing gives.
C27_QueriesKeepListings ==
    /\ \A d \in DOMAIN cache :
           d \in DOMAIN fetched.icare /\ cache[d] = fetched.icare[d].first
    /\ (call.op = "get_files" /\ call.out.ok)
       => /\ call.t0 \in DOMAIN fetched.icare
          /\ call.out.val = ListingOf("icare", fetched.icare[call.t0].first)

\* the fallback has just concatenated the listing of the first day and the
\* files of the middle day, both cached
C27_Witness ==
    /\ call.op = "get_files_in_range"
    /\ call.t1 <= call.t0
    /\ call.out.days = <<DayOf(call.t0), DayOf(call.t0) + 1>>
    /\ DayOf(call.t0) \in DOMAIN cache
    /\ DayOf(call.t0) + 1 \in DOMAIN cache
    /\ SelectSeq(cache[DayOf(call.t0) + 1], EndsInHdf) # <<>>

====
